---- MODULE Spec2Model ----
(***************************************************************************)
(* Serial-device discovery and connection arbitration of MeshConfigurator: *)
(* SettingsController (controllers/settings_controller.py), the candidate  *)
(* scorer, the device probe with its worker thread, the last-good-port     *)
(* store.                                                                  *)
(***************************************************************************)
EXTENDS Integers, Sequences, FiniteSets, TLC

(* ------------------------------------------------------------------ *)
(* Bounds of the model                                                 *)
(* ------------------------------------------------------------------ *)

\* The monotonic clock runs from 0 to MaxTime (seconds).
MaxTime == 10

\* Calls on one controller that may open a port for its slot: resolutions
\* entered without a session, and try_connect called by the owner.
MaxOps == 2

(* ------------------------------------------------------------------ *)
(* Python values                                                       *)
(* ------------------------------------------------------------------ *)

\* Python's None where a string is expected.
None == "None"

\* Python's None where an integer (vid, pid) is expected.
NoId == -1

(* ------------------------------------------------------------------ *)
(* Strings: str.lower, str.upper, str.startswith, the `in` operator    *)
(* ------------------------------------------------------------------ *)

UpperChars == "ABCDEFGHIJKLMNOPQRSTUVWXYZ"

LowerChars == "abcdefghijklmnopqrstuvwxyz"

CharAt(s, i) == SubSeq(s, i, i)

LowerChar(c) ==
    IF \E i \in 1..26 : CharAt(UpperChars, i) = c
    THEN CharAt(LowerChars, CHOOSE i \in 1..26 : CharAt(UpperChars, i) = c)
    ELSE c

UpperChar(c) ==
    IF \E i \in 1..26 : CharAt(LowerChars, i) = c
    THEN CharAt(UpperChars, CHOOSE i \in 1..26 : CharAt(LowerChars, i) = c)
    ELSE c

RECURSIVE Lower(_)
Lower(s) ==
    IF Len(s) = 0 THEN ""
    ELSE LowerChar(CharAt(s, 1)) \o Lower(SubSeq(s, 2, Len(s)))

RECURSIVE Upper(_)
Upper(s) ==
    IF Len(s) = 0 THEN ""
    ELSE UpperChar(CharAt(s, 1)) \o Upper(SubSeq(s, 2, Len(s)))

StartsWith(s, pre) ==
    /\ Len(s) >= Len(pre)
    /\ SubSeq(s, 1, Len(pre)) = pre

\* k in s
Contains(s, k) ==
    \E i \in 1..(Len(s) - Len(k) + 1) : SubSeq(s, i, i + Len(k) - 1) = k

\* Python truthiness of an Optional[str]
Truthy(s) == s # None /\ s # ""

\* a or b, on Optional[str]
OrElse(a, b) == IF Truthy(a) THEN a ELSE b

(* ------------------------------------------------------------------ *)
(* The platform and the serial ports it can list                       *)
(* ------------------------------------------------------------------ *)

Platforms == {"linux", "darwin", "windows"}

\* os.name
OsName(plat) == IF plat = "windows" THEN "nt" ELSE "posix"

\* platform.system().lower()
SystemName(plat) == plat

RawPort(dev, desc, manu, prod, iface, v, p) ==
    [device |-> dev, description |-> desc, manufacturer |-> manu,
     product |-> prod, interface |-> iface, vid |-> v, pid |-> p]

\* What list_ports.comports() can hold on each platform, in listing order:
\* a USB bridge of a known vendor first, a port without USB ids second, a
\* Bluetooth port last; the two in between are plain ports on linux and
\* darwin, Bluetooth ports on Windows.
PortsOf(plat) ==
    CASE plat = "linux" ->
           << RawPort("/dev/ttyUSB0", "CP2102 USB to UART", "Silicon Labs", None, None, 4292, 60000),
              RawPort("/dev/ttyS0", None, None, None, None, NoId, NoId),
              RawPort("/dev/ttyACM0", "ttyACM0", None, None, None, NoId, NoId),
              RawPort("/dev/ttyS1", "n/a", None, None, None, NoId, NoId),
              RawPort("/dev/rfcomm0", "n/a", None, "Bluetooth Modem", None, NoId, NoId) >>
      [] plat = "darwin" ->
           << RawPort("/dev/cu.usbserial-1", "USB Serial", None, None, None, 6790, 29987),
              RawPort("/dev/cu.debug", "n/a", None, None, None, NoId, NoId),
              RawPort("/dev/tty.modem", "n/a", None, None, None, NoId, NoId),
              RawPort("/dev/cu.wlan", "n/a", None, None, None, NoId, NoId),
              RawPort("/dev/cu.BLTH", "n/a", None, None, "Bluetooth", NoId, NoId) >>
      [] OTHER ->
           << RawPort("COM3", "CP210x USB to UART (COM3)", "Silicon Labs", None, None, 4292, 60000),
              RawPort("COM1", "Communications Port (COM1)", None, None, None, NoId, NoId),
              RawPort("COM10", "Bluetooth Peripheral (COM10)", None, None, None, NoId, NoId),
              RawPort("COM4", "Serial over Bluetooth link (COM4)", None, None, None, NoId, NoId),
              RawPort("COM5", None, "FTDI", None, "BLUETOOTH", 1027, NoId) >>

(* ------------------------------------------------------------------ *)
(* Candidate scorer: SettingsController._score_port                    *)
(* ------------------------------------------------------------------ *)

ScoreVidPid == 50
ScoreKnownVendor == 20
ScoreLinuxUsb == 10
ScoreTtyDot == 5
ScoreBluetooth == 30
ScoreLegacy == 15
ScoreKeyword == 5
DarwinTtyBoost == 5
DarwinCuPenalty == 2
WindowsBluetoothPenalty == 25

\* 0x10C4, 0x1A86, 0x0403, 0x2E8A
known_vendors == {4292, 6790, 1027, 11914}

ScoreKeywords == {"usb", "uart", "cp210", "ch340", "ftdi", "silicon labs", "serial"}

\* x or ""
OrEmpty(s) == IF s = None THEN "" ELSE s

\* A scorer that gives the USB boost to ports that are not Bluetooth only.
_score_port_usb_unless_bluetooth(dev, vid, pid, desc, manu, prod, is_bluetooth, is_legacy) ==
    LET s == OrEmpty(desc) \o " " \o OrEmpty(manu) \o " " \o OrEmpty(prod)
    IN  (IF vid # NoId /\ pid # NoId /\ ~is_bluetooth THEN ScoreVidPid ELSE 0)
      + (IF vid \in known_vendors THEN ScoreKnownVendor ELSE 0)
      + (IF StartsWith(dev, "/dev/ttyUSB") \/ StartsWith(dev, "/dev/ttyACM")
           THEN ScoreLinuxUsb ELSE 0)
      + (IF StartsWith(dev, "/dev/tty.") THEN ScoreTtyDot ELSE 0)
      - (IF is_bluetooth THEN ScoreBluetooth ELSE 0)
      - (IF is_legacy THEN ScoreLegacy ELSE 0)
      + (IF \E k \in ScoreKeywords : Contains(Lower(s), k) THEN ScoreKeyword ELSE 0)

_score_port(dev, vid, pid, desc, manu, prod, is_bluetooth, is_legacy) ==
    LET s == OrEmpty(desc) \o " " \o OrEmpty(manu) \o " " \o OrEmpty(prod)
    IN  (IF vid # NoId /\ pid # NoId THEN ScoreVidPid ELSE 0)
      + (IF vid \in known_vendors THEN ScoreKnownVendor ELSE 0)
      + (IF StartsWith(dev, "/dev/ttyUSB") \/ StartsWith(dev, "/dev/ttyACM")
           THEN ScoreLinuxUsb ELSE 0)
      + (IF StartsWith(dev, "/dev/tty.") THEN ScoreTtyDot ELSE 0)
      - (IF is_bluetooth THEN ScoreBluetooth ELSE 0)
      - (IF is_legacy THEN ScoreLegacy ELSE 0)
      + (IF \E k \in ScoreKeywords : Contains(Lower(s), k) THEN ScoreKeyword ELSE 0)

(* ------------------------------------------------------------------ *)
(* Port enumerator: SettingsController.detect_candidates               *)
(* ------------------------------------------------------------------ *)

\* The per-port part of the loop: heuristics, score, the candidate dict.
CandidateOf(plat, p) ==
    LET dev  == p.device
        desc == OrElse(p.description, dev)
        is_bluetooth ==
            \E s \in {desc, p.manufacturer, p.product, p.interface} :
                Truthy(s) /\ Contains(Lower(s), "bluetooth")
        is_legacy == OsName(plat) = "nt" /\ StartsWith(Upper(dev), "COM1")
    IN  [path |-> dev,
         is_bluetooth |-> is_bluetooth,
         is_legacy |-> is_legacy,
         score |-> _score_port(dev, p.vid, p.pid, desc, p.manufacturer,
                               p.product, is_bluetooth, is_legacy)]

\* The platform-wide adjustments applied after the loop.
Adjusted(plat, c) ==
    LET darwin == IF SystemName(plat) = "darwin"
                  THEN (IF StartsWith(c.path, "/dev/tty.") THEN DarwinTtyBoost ELSE 0)
                     - (IF StartsWith(c.path, "/dev/cu.") THEN DarwinCuPenalty ELSE 0)
                  ELSE 0
        nt == IF OsName(plat) = "nt" /\ c.is_bluetooth
              THEN WindowsBluetoothPenalty ELSE 0
    IN  [c EXCEPT !.score = c.score + darwin - nt]

\* A sort that puts a candidate before the ones of equal score.
RECURSIVE InsertBeforeEqual(_, _)
InsertBeforeEqual(c, sorted) ==
    IF sorted = << >> THEN << c >>
    ELSE IF Head(sorted).score > c.score
         THEN << Head(sorted) >> \o InsertBeforeEqual(c, Tail(sorted))
         ELSE << c >> \o sorted

\* list.sort(key=score, reverse=True): stable, descending.  Insert c behind
\* every element whose score is not smaller.
RECURSIVE InsertByScore(_, _)
InsertByScore(c, sorted) ==
    IF sorted = << >> THEN << c >>
    ELSE IF Head(sorted).score >= c.score
         THEN << Head(sorted) >> \o InsertByScore(c, Tail(sorted))
         ELSE << c >> \o sorted

RECURSIVE SortByScore(_)
SortByScore(out) ==
    IF out = << >> THEN << >>
    ELSE InsertByScore(out[Len(out)], SortByScore(SubSeq(out, 1, Len(out) - 1)))

\* The candidate dicts of the loop, after the platform-wide adjustments.
Scored(plat, ports) ==
    [i \in 1..Len(ports) |-> Adjusted(plat, CandidateOf(plat, ports[i]))]

detect_candidates(plat, ports) == SortByScore(Scored(plat, ports))

\* The members of a sequence at the indices in `present`, in order.
RECURSIVE Select(_, _, _)
Select(seq, present, i) ==
    IF i > Len(seq) THEN << >>
    ELSE (IF i \in present THEN << seq[i] >> ELSE << >>)
         \o Select(seq, present, i + 1)

(* ------------------------------------------------------------------ *)
(* State                                                               *)
(* ------------------------------------------------------------------ *)

VARIABLES
    platform,        \* the platform the process runs on
    scored,          \* the candidate dict of each port the platform can list
    explicit_port,   \* SettingsController._explicit_port
    dc,              \* SettingsController._dc, the session slot
    last_error,      \* SettingsController._last_error
    last_good_port,  \* SettingsController._last_good_port
    probe_recent,    \* SettingsController._probe_recent: path -> timestamp
    store,           \* the content of ~/.mesh_configurator.json
    now,             \* time.monotonic()
    pc,              \* where the control thread is
    connected,       \* whether the running resolution found a session held
    cands_use,       \* auto_connect_or_candidates: cands_use
    pi,              \* index of the candidate being probed
    verified,        \* auto_connect_or_candidates: verified
    worker,          \* the probe's worker thread
    result,          \* _probe_port: result["ok"]
    started,         \* when t.start() ran
    joinState,        \* where the worker was when t.join returned
    abandoned,       \* workers still running after their probe returned
    trace,           \* what the running resolution did so far, in order
    ret,             \* what the resolution returned
    prev,            \* what the previous resolution returned, when it found a
                     \* session held and no other call was made since
    lastConnect,     \* the most recent try_connect and its outcome
    closedSince,     \* whether close ran after the most recent try_connect
    leaked,          \* whether a session was dropped from the slot without close
    probedAt,        \* path -> when the last probe that ran on it returned
    ops,             \* calls so far that may have opened a port for the slot
    call,            \* a function applied on its own: its arguments and result
    _candidates,     \* PortPickerDialog: the candidates listed
    _choice_var,     \* PortPickerDialog: index of the radio button chosen
    dlg_result,      \* PortPickerDialog.result
    _status,         \* PortPickerDialog: text of the status label
    _btn_connect,    \* PortPickerDialog: state of the Connect button
    _btn_refresh,    \* PortPickerDialog: state of the Refresh button
    _btn_cancel,     \* PortPickerDialog: state of the Cancel button
    threads,         \* PortPickerDialog._on_connect: the _work threads running
    after_queue,     \* the _done callbacks handed to self.after, in order
    destroyed        \* whether the dialog's window is gone

vars == << platform, scored, explicit_port, dc, last_error, last_good_port,
           probe_recent, store, now, pc, connected, cands_use, pi, verified,
           worker, result, started, joinState, abandoned, trace, ret, prev,
           lastConnect, closedSince, leaked, probedAt, ops, call,
           _candidates, _choice_var, dlg_result, _status, _btn_connect,
           _btn_refresh, _btn_cancel, threads, after_queue, destroyed >>

\* The variables only the control thread's resolution touches.
callVars == << connected, cands_use, pi, verified, trace, ret >>
probeVars == << worker, result, started, joinState >>
histVars == << prev, lastConnect, closedSince, leaked >>
\* (probedAt and ops are named where they are left alone)

\* The picker dialog.
buttonVars == << _btn_connect, _btn_refresh, _btn_cancel >>
dialogVars == << _candidates, _choice_var, dlg_result, _status, buttonVars,
                threads, after_queue, destroyed >>

\* What the operations of a controller in use never touch.
sideVars == << call, dialogVars >>

\* No picker dialog is open.
NoDialog ==
    /\ _candidates = << >>
    /\ _choice_var = 0
    /\ dlg_result = None
    /\ _status = ""
    /\ _btn_connect = "normal"
    /\ _btn_refresh = "normal"
    /\ _btn_cancel = "normal"
    /\ threads = << >>
    /\ after_queue = << >>
    /\ destroyed = TRUE

NoCall == [fn |-> "none"]

\* The owner of the controller makes one more call that may open a port.
OwnerCalls == ops < MaxOps /\ ops' = ops + 1

(* ------------------------------------------------------------------ *)
(* Device session collaborator (controllers/device_controller.py)      *)
(* ------------------------------------------------------------------ *)

NoSession == [port |-> None]

\* DeviceController(port=port), when it does not raise.
Session(port) == [port |-> port]

\* DeviceController.identity(silent=True) of a held session.
identity(session) == [port |-> session.port]

(* ------------------------------------------------------------------ *)
(* Last-known-good store                                               *)
(* ------------------------------------------------------------------ *)

\* os.path.isfile(self._cache_path) is False
StoreMissing == "<missing>"

\* A dump that writes the characters as they are.
JsonEscapeNothing(s) == s

\* json.dumps of a str, for the characters a port name is made of here: the
\* quote and the backslash are escaped, every other character stands for
\* itself.
RECURSIVE JsonEscape(_)
JsonEscape(s) ==
    IF Len(s) = 0 THEN ""
    ELSE (CASE CharAt(s, 1) = "\"" -> "\\\""
            [] CharAt(s, 1) = "\\" -> "\\\\"
            [] OTHER -> CharAt(s, 1))
         \o JsonEscape(SubSeq(s, 2, Len(s)))

JsonKey == "{\"last_good_port\": \""
JsonEnd == "\"}"

\* _json.dump({"last_good_port": port}, f)
JsonDump(port) == JsonKey \o JsonEscape(port) \o JsonEnd

\* The body of a JSON string decoded: [ok |-> FALSE] where json.load raises
\* (a quote that is not escaped, a backslash before nothing).
RECURSIVE JsonUnescape(_)
JsonUnescape(body) ==
    IF Len(body) = 0 THEN [ok |-> TRUE, s |-> ""]
    ELSE IF CharAt(body, 1) = "\""
    THEN [ok |-> FALSE, s |-> ""]
    ELSE IF CharAt(body, 1) = "\\"
    THEN IF Len(body) >= 2 /\ CharAt(body, 2) \in {"\"", "\\"}
         THEN LET rest == JsonUnescape(SubSeq(body, 3, Len(body)))
              IN  [ok |-> rest.ok, s |-> CharAt(body, 2) \o rest.s]
         ELSE [ok |-> FALSE, s |-> ""]
    ELSE LET rest == JsonUnescape(SubSeq(body, 2, Len(body)))
         IN  [ok |-> rest.ok, s |-> CharAt(body, 1) \o rest.s]

\* Documents json.load accepts that hold no port: `data or {}` and
\* data.get("last_good_port") give None for them, and data.get raises for
\* the list, which the except turns into None.
JsonWithoutPort == {"null", "{}", "[]", "[1]"}

\* (_json.load(f) or {}).get("last_good_port"), None where anything raises.
JsonLoadPort(text) ==
    IF text \in JsonWithoutPort THEN None
    ELSE IF /\ Len(text) >= Len(JsonKey) + Len(JsonEnd)
            /\ StartsWith(text, JsonKey)
            /\ SubSeq(text, Len(text) - Len(JsonEnd) + 1, Len(text)) = JsonEnd
    THEN LET body == JsonUnescape(SubSeq(text, Len(JsonKey) + 1,
                                         Len(text) - Len(JsonEnd)))
         IN  IF body.ok THEN body.s ELSE None
    ELSE None

\* A store file whose content was cut short.
StoreCorrupt == "{\"last_good_por"

\* How a write of the store file can end.
WriteOutcomes == {"written", "open_failed"}

_load_last_good_port(file) ==
    IF file = StoreMissing THEN None ELSE JsonLoadPort(file)

\* A save that writes nothing.
_save_nothing(file, port, wr) == file

\* The file holds the document when the write went through; when open()
\* raised it keeps what it held.
_save_last_good_port(file, port, wr) ==
    IF wr = "written" THEN JsonDump(port) ELSE file

(* ------------------------------------------------------------------ *)
(* Errors                                                              *)
(* ------------------------------------------------------------------ *)

NoError == [code |-> None, detail |-> None, candidates |-> << >>]

ErrorRecord(code, detail) == [code |-> code, detail |-> detail, candidates |-> << >>]

\* The record without its candidate list.
MultipleCandidatesBare(cs) ==
    [code |-> "multiple_candidates", detail |-> "Multiple serial devices found",
     candidates |-> << >>]

MultipleCandidates(cs) ==
    [code |-> "multiple_candidates", detail |-> "Multiple serial devices found",
     candidates |-> cs]

\* str(e) of a failed DeviceController(port=port)
OpenDetail(port) == "cannot open " \o port

(* ------------------------------------------------------------------ *)
(* try_connect                                                         *)
(* ------------------------------------------------------------------ *)

\* The fields try_connect reads and writes, as one value.
Core ==
    [dc |-> dc, last_error |-> last_error, store |-> store, leaked |-> leaked,
     lastConnect |-> lastConnect, closedSince |-> closedSince, trace |-> trace]

SetCore(a) ==
    /\ dc' = a.dc
    /\ last_error' = a.last_error
    /\ store' = a.store
    /\ leaked' = a.leaked
    /\ lastConnect' = a.lastConnect
    /\ closedSince' = a.closedSince
    /\ trace' = a.trace

OpenEvent(why, port, ok, wr) ==
    [ev |-> "open", why |-> why, port |-> port, ok |-> ok, wr |-> wr]

\* The session the slot held is dropped, still open, when it is overwritten.
Dropped(a) == a.leaked \/ a.dc # NoSession

\* A failure that leaves the slot as it was.
SlotAfterFailureKept(a) == a.dc

\* The slot after DeviceController(port=port) raised.
SlotAfterFailure(a) == NoSession

\* A worker between its DeviceController(port=port) and its dc.close().
SessionOpen(w) == w.st \in {"opened", "identified"}

\* Whether a probe worker holds a session open on the port.
ProbeHolds(port) == \E w \in abandoned \cup {worker} : w.port = port /\ SessionOpen(w)

Attempt(why, port, ok) ==
    [ok |-> ok, port |-> port, why |-> why, busy |-> ProbeHolds(port)]

\* ok: whether DeviceController(port=port) returned; wr: how the save ended.
try_connect(a, why, port, ok, wr) ==
    IF ok
    THEN [a EXCEPT !.dc = Session(port),
                   !.store = _save_last_good_port(a.store, port, wr),
                   !.leaked = Dropped(a),
                   !.lastConnect = Attempt(why, port, TRUE),
                   !.closedSince = FALSE,
                   !.trace = Append(@, OpenEvent(why, port, TRUE, wr))]
    ELSE [a EXCEPT !.last_error = ErrorRecord("open_failed", OpenDetail(port)),
                   !.dc = SlotAfterFailure(a),
                   !.leaked = Dropped(a),
                   !.lastConnect = Attempt(why, port, FALSE),
                   !.closedSince = FALSE,
                   !.trace = Append(@, OpenEvent(why, port, FALSE, "none"))]

(* ------------------------------------------------------------------ *)
(* auto_connect_or_candidates, connect_autodetect_if_single            *)
(* ------------------------------------------------------------------ *)

HighConfidence == 40
ProbeLimit == 3
ProbeTimeoutS == 4
ThrottleS == 5

NoRet == [port |-> None, candidates |-> << >>]

\* The listings the enumeration step may see: nothing, a USB bridge alone, a
\* port without USB ids alone, a USB bridge beside a Bluetooth port, three or
\* four ports of which none or some are Bluetooth ports.
Listings == {{}, {1}, {2}, {1, 5}, {2, 3, 4}, {3, 4, 5}, {1, 2, 3, 4}}

EnumEvent(raised, cs) ==
    [ev |-> "enum", why |-> IF raised THEN "raised" ELSE "listed", cands |-> cs]

\* st: where the worker was when t.join returned ("done": it had ended).
ProbeEvent(port, at, skipped, st, r) ==
    [ev |-> "probe", why |-> IF skipped THEN "skipped"
                             ELSE IF st # "done" THEN "timeout" ELSE "joined",
     port |-> port, at |-> at, worker |-> st, ok |-> r]

\* A flow that does not look at the slot first.
AlreadyConnectedNever(slot) == FALSE

\* if self._dc is not None
AlreadyConnected(slot) == slot # NoSession

\* The operands of the `or` exchanged.
ConnectedPortExplicitFirst(ident, explicit) == OrElse(explicit, ident.port)

\* ident.get("port") or self._explicit_port
ConnectedPort(ident, explicit) == OrElse(ident.port, explicit)

\* non_bt if non_bt else cands
RECURSIVE NonBluetooth(_)
NonBluetooth(cs) ==
    IF cs = << >> THEN << >>
    ELSE (IF Head(cs).is_bluetooth THEN << >> ELSE << Head(cs) >>)
         \o NonBluetooth(Tail(cs))

\* No filter: every candidate is kept.
WorkingSubsetAll(cs) == cs

WorkingSubset(cs) == IF NonBluetooth(cs) # << >> THEN NonBluetooth(cs) ELSE cs

\* len(cands_use) == 1 and int(top.get("score", 0)) >= 40
SingleHighConfidence(use) == Len(use) = 1 /\ use[1].score >= HighConfidence

\* auto_connect_or_candidates returns (port, cs).
Returned(a, port, cs) ==
    /\ SetCore(a)
    /\ ret' = [port |-> port, candidates |-> cs]
    /\ pc' = "returned"
    /\ cands_use' = << >>
    /\ pi' = 0
    /\ verified' = << >>

\* What detect_candidates returns when the ports in `present` are listed.
Enumerated(present) == SortByScore(Select(scored, present, 1))

\* 5) the probe loop starts
StepProbe(a, use) ==
    /\ SetCore(a)
    /\ cands_use' = use
    /\ pi' = 1
    /\ verified' = << >>
    /\ pc' = "probe"
    /\ ret' = ret

\* 4) single high-confidence candidate
StepSingle(a, use) ==
    IF SingleHighConfidence(use)
    THEN \/ \E wr \in WriteOutcomes :
               Returned(try_connect(a, "single", use[1].path, TRUE, wr),
                        use[1].path, << >>)
         \/ StepProbe(try_connect(a, "single", use[1].path, FALSE, "none"), use)
    ELSE StepProbe(a, use)

\* An empty result that reports an error only when none was recorded.
NoCandidatesKeepsError(a) ==
    IF a.last_error = NoError
    THEN [a EXCEPT !.last_error = ErrorRecord("no_candidates", "No serial devices found")]
    ELSE a

\* if not cands: self._last_error = {"code": "no_candidates", ...}
NoCandidates(a) ==
    [a EXCEPT !.last_error = ErrorRecord("no_candidates", "No serial devices found")]

\* 3) enumerate, the empty result, the Bluetooth filter
StepEnumerate(a) ==
    \/ Returned([a EXCEPT !.trace = Append(@, EnumEvent(TRUE, << >>)),
                             !.last_error = ErrorRecord("open_failed", "comports failed")],
                None, << >>)
    \/ \E present \in Listings :
          LET cs == Enumerated(present)
              a1 == [a EXCEPT !.trace = Append(@, EnumEvent(FALSE, cs))]
          IN  IF Len(cs) = 0
              THEN Returned(NoCandidates(a1), None, << >>)
              ELSE StepSingle(a1, WorkingSubset(cs))

\* A flow in which a last good port that does not open ends the call.
StepLastGoodFatal(a) ==
    IF Truthy(last_good_port)
    THEN \/ \E wr \in WriteOutcomes :
               Returned(try_connect(a, "last_good", last_good_port, TRUE, wr),
                        last_good_port, << >>)
         \/ Returned(try_connect(a, "last_good", last_good_port, FALSE, "none"),
                     None, << >>)
    ELSE StepEnumerate(a)

\* 2) last good port
StepLastGood(a) ==
    IF Truthy(last_good_port)
    THEN \/ \E wr \in WriteOutcomes :
               Returned(try_connect(a, "last_good", last_good_port, TRUE, wr),
                        last_good_port, << >>)
         \/ StepEnumerate(try_connect(a, "last_good", last_good_port, FALSE, "none"))
    ELSE StepEnumerate(a)

\* 1) explicit port
StepExplicit(a) ==
    IF Truthy(explicit_port)
    THEN \/ \E wr \in WriteOutcomes :
               Returned(try_connect(a, "explicit", explicit_port, TRUE, wr),
                        explicit_port, << >>)
         \/ StepLastGood(try_connect(a, "explicit", explicit_port, FALSE, "none"))
    ELSE StepLastGood(a)

\* Steps 1 to 4 of the flow, up to the first probe or the return.
auto_connect_or_candidates ==
    /\ pc = "idle"
    /\ IF AlreadyConnected(dc) THEN UNCHANGED ops ELSE OwnerCalls
    /\ UNCHANGED probedAt
    /\ connected' = (dc # NoSession)
    /\ UNCHANGED << sideVars, platform, scored, explicit_port, last_good_port, probe_recent,
                    now, probeVars, abandoned, prev >>
    /\ LET a0 == [Core EXCEPT !.last_error = NoError, !.trace = << >>]
       IN  IF AlreadyConnected(dc)
           THEN Returned(a0, ConnectedPort(identity(dc), explicit_port), << >>)
           ELSE StepExplicit(a0)

\* A loop that opens the first verified candidate however many verified.
AfterProbeFirstVerified(a, v) ==
    IF pi < Len(cands_use) /\ pi < ProbeLimit
    THEN /\ SetCore(a)
         /\ verified' = v
         /\ pi' = pi + 1
         /\ pc' = "probe"
         /\ UNCHANGED << cands_use, ret >>
    ELSE IF Len(v) >= 1
    THEN \/ \E wr \in WriteOutcomes :
               Returned(try_connect(a, "verified", v[1].path, TRUE, wr),
                        v[1].path, << >>)
         \/ Returned(try_connect(a, "verified", v[1].path, FALSE, "none"),
                     None, cands_use)
    ELSE Returned(a, None, cands_use)

\* The loop moves to the next candidate, or steps 5 (connect) and 6 run.
AfterProbe(a, v) ==
    IF pi < Len(cands_use) /\ pi < ProbeLimit
    THEN /\ SetCore(a)
         /\ verified' = v
         /\ pi' = pi + 1
         /\ pc' = "probe"
         /\ UNCHANGED << cands_use, ret >>
    ELSE IF Len(v) = 1
    THEN \/ \E wr \in WriteOutcomes :
               Returned(try_connect(a, "verified", v[1].path, TRUE, wr),
                        v[1].path, << >>)
         \/ Returned(try_connect(a, "verified", v[1].path, FALSE, "none"),
                     None, cands_use)
    ELSE Returned(a, None, cands_use)

\* connect_autodetect_if_single: what follows its call of
\* auto_connect_or_candidates, when that call was made by it.
connect_autodetect_if_single ==
    /\ pc = "returned"
    /\ pc' = "returned_single"
    /\ last_error' = IF ~Truthy(ret.port) /\ ret.candidates # << >>
                     THEN MultipleCandidates(ret.candidates)
                     ELSE last_error
    /\ UNCHANGED << sideVars, platform, scored, explicit_port, dc, last_good_port,
                    probe_recent, store, now, callVars, probeVars, abandoned,
                    histVars, probedAt, ops >>

\* The owner of the controller takes the result.
ResolveReturn ==
    /\ pc \in {"returned", "returned_single"}
    /\ pc' = "idle"
    /\ prev' = IF connected THEN ret.port ELSE None
    /\ trace' = << >>
    /\ ret' = NoRet
    /\ connected' = FALSE
    /\ UNCHANGED << sideVars, platform, scored, explicit_port, dc, last_error, last_good_port,
                    probe_recent, store, now, cands_use, pi, verified, probeVars,
                    abandoned, lastConnect, closedSince, leaked >>
    /\ UNCHANGED << probedAt, ops >>

(* ------------------------------------------------------------------ *)
(* _probe_port and its worker thread                                   *)
(* ------------------------------------------------------------------ *)

NoWorker == [port |-> None, st |-> "none"]

\* self._probe_recent.get(port, 0.0)
RecentOf(recent, port) == IF port \in DOMAIN recent THEN recent[port] ELSE 0

\* A probe that never looks at the timestamp.
ThrottleSkipsNever(recent, port, t) == FALSE

\* if _time.monotonic() - last < 5.0: return False
ThrottleSkips(recent, port, t) == t - RecentOf(recent, port) < ThrottleS

\* self._probe_recent[port] = _time.monotonic()
Stamp(recent, port, t) ==
    [q \in DOMAIN recent \cup {port} |-> IF q = port THEN t ELSE recent[q]]

\* The throttle check, then result = {"ok": False} and t.start().
ProbeStart ==
    /\ pc = "probe"
    /\ LET port == cands_use[pi].path
       IN  IF ThrottleSkips(probe_recent, port, now)
           THEN /\ AfterProbe([Core EXCEPT !.trace =
                                  Append(@, ProbeEvent(port, now, TRUE, "none", FALSE))],
                              verified)
                /\ UNCHANGED << probeVars >>
           ELSE /\ worker' = [port |-> port, st |-> "spawned"]
                /\ result' = FALSE
                /\ started' = now
                /\ joinState' = "none"
                /\ pc' = "join"
                /\ UNCHANGED << dc, last_error, store, cands_use, pi, verified,
                                trace, ret, lastConnect, closedSince, leaked >>
    /\ UNCHANGED << sideVars, platform, scored, explicit_port, last_good_port, probe_recent, now,
                    connected, abandoned, prev >>
    /\ UNCHANGED << probedAt, ops >>

\* _worker: dc = DeviceController(port=port)
WorkerOpen ==
    /\ worker.st = "spawned"
    /\ \E ok \in BOOLEAN :
          worker' = [worker EXCEPT !.st = IF ok THEN "opened" ELSE "done"]
    /\ UNCHANGED << sideVars, platform, scored, explicit_port, dc, last_error, last_good_port,
                    probe_recent, store, now, pc, callVars, result, started,
                    joinState, abandoned, histVars >>
    /\ UNCHANGED << probedAt, ops >>

\* _worker: ident = dc.identity(silent=True); the signature test
WorkerIdentify ==
    /\ worker.st = "opened"
    /\ \E signature \in BOOLEAN : result' = (result \/ signature)
    /\ worker' = [worker EXCEPT !.st = "identified"]
    /\ UNCHANGED << sideVars, platform, scored, explicit_port, dc, last_error, last_good_port,
                    probe_recent, store, now, pc, callVars, started, joinState,
                    abandoned, histVars >>
    /\ UNCHANGED << probedAt, ops >>

\* _worker: finally: dc.close()
WorkerClose ==
    /\ worker.st = "identified"
    /\ worker' = [worker EXCEPT !.st = "done"]
    /\ UNCHANGED << sideVars, platform, scored, explicit_port, dc, last_error, last_good_port,
                    probe_recent, store, now, pc, callVars, result, started,
                    joinState, abandoned, histVars >>
    /\ UNCHANGED << probedAt, ops >>

\* t.join(timeout=timeout_s) returns: the worker ended, or the deadline passed.
ProbeJoin ==
    /\ pc = "join"
    /\ \/ worker.st = "done"
       \/ now - started >= ProbeTimeoutS
    /\ joinState' = worker.st
    /\ pc' = "joined"
    /\ UNCHANGED << sideVars, platform, scored, explicit_port, dc, last_error, last_good_port,
                    probe_recent, store, now, callVars, worker, result, started,
                    abandoned, histVars >>
    /\ UNCHANGED << probedAt, ops >>

\* A worker that _probe_port leaves behind: whatever it finds is written to a
\* dict nobody reads, so only whether its session is open is kept.
LeftBehind(w) == [w EXCEPT !.st = IF SessionOpen(w) THEN "opened" ELSE w.st]

\* The timestamp is recorded and bool(result.get("ok")) is returned.
ProbeReturn ==
    /\ pc = "joined"
    /\ LET cand == cands_use[pi]
           a == [Core EXCEPT !.trace =
                    Append(@, ProbeEvent(cand.path, started, FALSE, joinState, result))]
       IN  AfterProbe(a, IF result THEN Append(verified, cand) ELSE verified)
    /\ probe_recent' = Stamp(probe_recent, cands_use[pi].path, now)
    /\ abandoned' = IF worker.st # "done"
                    THEN abandoned \cup {LeftBehind(worker)}
                    ELSE abandoned
    /\ worker' = NoWorker
    /\ result' = FALSE
    /\ started' = 0
    /\ joinState' = "none"
    /\ probedAt' = Stamp(probedAt, cands_use[pi].path, now)
    /\ UNCHANGED << sideVars, platform, scored, explicit_port, last_good_port, now, connected,
                    prev, ops >>

\* A worker left behind goes on: it opens the port or fails to, and once it
\* has the port open it asks for the identity and closes.
AbandonedStep ==
    /\ \E w \in abandoned :
          \/ /\ w.st = "spawned"
             /\ \E ok \in BOOLEAN :
                   abandoned' = IF ok
                                THEN (abandoned \ {w}) \cup {[w EXCEPT !.st = "opened"]}
                                ELSE abandoned \ {w}
          \/ /\ w.st = "opened"
             /\ abandoned' = abandoned \ {w}
    /\ UNCHANGED << sideVars, platform, scored, explicit_port, dc, last_error, last_good_port,
                    probe_recent, store, now, pc, callVars, probeVars, histVars >>
    /\ UNCHANGED << probedAt, ops >>

(* ------------------------------------------------------------------ *)
(* The other operations of the controller, and the clock               *)
(* ------------------------------------------------------------------ *)

\* The port the owner may pass to try_connect itself: one that is neither
\* the explicit port nor the top candidate.
DirectPorts(plat) == {PortsOf(plat)[2].device}

\* try_connect called by the owner of the controller (the picker's connect_fn).
TryConnect ==
    /\ pc = "idle"
    /\ OwnerCalls
    /\ UNCHANGED probedAt
    /\ \E port \in DirectPorts(platform) :
          \/ \E wr \in WriteOutcomes :
                SetCore([try_connect(Core, "direct", port, TRUE, wr) EXCEPT !.trace = << >>])
          \/ SetCore([try_connect(Core, "direct", port, FALSE, "none") EXCEPT !.trace = << >>])
    /\ prev' = None
    /\ UNCHANGED << sideVars, platform, scored, explicit_port, last_good_port, probe_recent, now, pc,
                    connected, cands_use, pi, verified, ret, probeVars, abandoned >>

\* A close that calls dc.close() and keeps the reference.
SlotAfterCloseKept(slot) == slot

\* The slot after close().
SlotAfterClose(slot) == NoSession

close ==
    /\ dc' = SlotAfterClose(dc)
    /\ closedSince' = TRUE
    /\ prev' = None

Close ==
    /\ pc = "idle"
    /\ UNCHANGED << probedAt, ops >>
    /\ close
    /\ UNCHANGED << sideVars, platform, scored, explicit_port, last_error, last_good_port,
                    probe_recent, store, now, pc, callVars, probeVars, abandoned,
                    lastConnect, leaked >>

\* fetch_device_model(close_after_fetch): raises when no session is held.
FetchDeviceModel ==
    /\ pc = "idle"
    /\ UNCHANGED << probedAt, ops >>
    /\ dc # NoSession
    /\ \E close_after_fetch \in BOOLEAN :
          IF close_after_fetch
          THEN close
          ELSE /\ prev' = None
               /\ UNCHANGED << dc, closedSince >>
    /\ UNCHANGED << sideVars, platform, scored, explicit_port, last_error, last_good_port,
                    probe_recent, store, now, pc, callVars, probeVars, abandoned,
                    lastConnect, leaked >>

\* t.join waits for a worker that has not ended: time passes up to the
\* deadline.
Tick ==
    /\ pc = "join"
    /\ worker.st # "done"
    /\ now < started + ProbeTimeoutS
    /\ now' = started + ProbeTimeoutS
    /\ now' <= MaxTime
    /\ UNCHANGED << sideVars, platform, scored, explicit_port, dc, last_error, last_good_port,
                    probe_recent, store, pc, callVars, probeVars, abandoned,
                    histVars >>
    /\ UNCHANGED << probedAt, ops >>

\* How long the owner may let the controller rest between two calls: not at
\* all, just inside the throttle window, just outside it.
Delays == {ThrottleS - 1, ThrottleS}

\* Time passes while the controller is idle.
Wait ==
    /\ pc = "idle"
    /\ \E d \in Delays : now' = now + d
    /\ now' <= MaxTime
    /\ UNCHANGED << sideVars, platform, scored, explicit_port, dc, last_error, last_good_port,
                    probe_recent, store, pc, callVars, probeVars, abandoned,
                    histVars, probedAt, ops >>

(* ------------------------------------------------------------------ *)
(* The specification                                                   *)
(* ------------------------------------------------------------------ *)

\* The platforms the controller is followed on: their port sets differ in
\* shape (darwin's has the shape of linux's).
ArbiterPlatforms == {"linux", "windows"}

\* The ports a controller may be given, or may find in the store, at startup.
StartupPorts(plat) == {PortsOf(plat)[1].device}

\* SettingsController.__init__, but for the store file it finds.
Constructed ==
    /\ dc = NoSession
    /\ last_error = NoError
    /\ last_good_port = _load_last_good_port(store)
    /\ probe_recent = [q \in {} |-> 0]

\* SettingsController.__init__
Init ==
    /\ platform \in ArbiterPlatforms
    /\ scored = Scored(platform, PortsOf(platform))
    /\ explicit_port \in {None} \cup StartupPorts(platform)
    /\ store \in {StoreMissing, JsonDump(PortsOf(platform)[2].device)}
    /\ Constructed
    /\ now = 0
    /\ pc = "idle"
    /\ connected = FALSE
    /\ cands_use = << >>
    /\ pi = 0
    /\ verified = << >>
    /\ worker = NoWorker
    /\ result = FALSE
    /\ started = 0
    /\ joinState = "none"
    /\ abandoned = {}
    /\ trace = << >>
    /\ ret = NoRet
    /\ prev = None
    /\ lastConnect = [ok |-> FALSE, port |-> None, why |-> None, busy |-> FALSE]
    /\ closedSince = FALSE
    /\ leaked = FALSE
    /\ probedAt = [q \in {} |-> 0]
    /\ ops = 0
    /\ call = NoCall
    /\ NoDialog

Next ==
    \/ auto_connect_or_candidates
    \/ connect_autodetect_if_single
    \/ ResolveReturn
    \/ ProbeStart
    \/ WorkerOpen
    \/ WorkerIdentify
    \/ WorkerClose
    \/ ProbeJoin
    \/ ProbeReturn
    \/ AbandonedStep
    \/ TryConnect
    \/ Close
    \/ FetchDeviceModel
    \/ Wait
    \/ Tick

Spec == Init /\ [][Next]_vars

(* ------------------------------------------------------------------ *)
(* The store on its own: save, load, a damaged file                    *)
(* ------------------------------------------------------------------ *)

\* Port names a caller may pass to try_connect: device paths, the empty
\* string, names with quotes, backslashes and JSON in them.
PortStrings ==
    {"/dev/ttyUSB0", "COM3", "", " ", "a\"b", "\\", "\\\"", "\"}", "x\\",
     "\\\\.\\COM10", "null", "{\"last_good_port\": \"x\"}"}

\* What the store file may hold when a controller is constructed: nothing
\* (no file), an empty file, text that is no JSON, JSON without the port,
\* a document a save wrote.
StoreFiles ==
    {StoreMissing, StoreCorrupt, "", "not json", "{\"last_good_port\": \"x"}
        \cup JsonWithoutPort
        \cup {JsonDump(q) : q \in {"/dev/ttyUSB0", "a\"b"}}

\* The files that are missing or hold no document a save can have written.
Unreadable(file) == \A q \in PortStrings : file # JsonDump(q)

\* All the state but the store file, the loaded port and the record of what
\* was done to the store.
storeRest == << platform, scored, explicit_port, dc, last_error, probe_recent,
               now, pc, callVars, probeVars, abandoned, histVars, probedAt, ops,
               dialogVars >>

InitStore ==
    /\ platform = "linux"
    /\ scored = << >>
    /\ explicit_port = None
    /\ store \in StoreFiles
    /\ Constructed
    /\ now = 0
    /\ pc = "idle"
    /\ connected = FALSE
    /\ cands_use = << >>
    /\ pi = 0
    /\ verified = << >>
    /\ worker = NoWorker
    /\ result = FALSE
    /\ started = 0
    /\ joinState = "none"
    /\ abandoned = {}
    /\ trace = << >>
    /\ ret = NoRet
    /\ prev = None
    /\ lastConnect = [ok |-> FALSE, port |-> None, why |-> None, busy |-> FALSE]
    /\ closedSince = FALSE
    /\ leaked = FALSE
    /\ probedAt = [q \in {} |-> 0]
    /\ ops = 0
    /\ call = NoCall
    /\ NoDialog

\* self._save_last_good_port(port), as a successful try_connect calls it.
StoreSave ==
    /\ \E port \in PortStrings : \E wr \in WriteOutcomes :
          /\ store' = _save_last_good_port(store, port, wr)
          /\ call' = [fn |-> "save", port |-> port, wr |-> wr]
    /\ UNCHANGED << last_good_port, storeRest >>

\* The file is cut short by something else than the controller.
StoreDamage ==
    /\ store # StoreMissing
    /\ \E k \in 0..(Len(store) - 1) : store' = SubSeq(store, 1, k)
    /\ call' = [fn |-> "damage", port |-> None, wr |-> "none"]
    /\ UNCHANGED << last_good_port, storeRest >>

\* A controller is constructed: self._last_good_port = self._load_last_good_port()
StoreLoad ==
    /\ call.fn \in {"save", "damage"}
    /\ last_good_port' = _load_last_good_port(store)
    /\ call' = [call EXCEPT !.fn = IF call.fn = "save" THEN "save_load" ELSE "load"]
    /\ UNCHANGED << store, storeRest >>

NextStore == StoreSave \/ StoreDamage \/ StoreLoad

SpecStore == InitStore /\ [][NextStore]_vars

(* ------------------------------------------------------------------ *)
(* The enumerator on its own                                           *)
(* ------------------------------------------------------------------ *)

\* What list_ports.comports() may return: any of the platform's ports, in
\* any order.
PortListings(plat) ==
    UNION {{l \in [1..k -> 1..Len(PortsOf(plat))] :
               \A i, j \in 1..k : i # j => l[i] # l[j]} : k \in 0..Len(PortsOf(plat))}

\* All the state but the platform and the record of the call.
enumRest == << scored, explicit_port, dc, last_error, last_good_port, probe_recent,
              store, now, pc, callVars, probeVars, abandoned, histVars, probedAt,
              ops, dialogVars >>

InitEnum ==
    /\ platform \in Platforms
    /\ scored = << >>
    /\ explicit_port = None
    /\ store = StoreMissing
    /\ Constructed
    /\ now = 0
    /\ pc = "idle"
    /\ connected = FALSE
    /\ cands_use = << >>
    /\ pi = 0
    /\ verified = << >>
    /\ worker = NoWorker
    /\ result = FALSE
    /\ started = 0
    /\ joinState = "none"
    /\ abandoned = {}
    /\ trace = << >>
    /\ ret = NoRet
    /\ prev = None
    /\ lastConnect = [ok |-> FALSE, port |-> None, why |-> None, busy |-> FALSE]
    /\ closedSince = FALSE
    /\ leaked = FALSE
    /\ probedAt = [q \in {} |-> 0]
    /\ ops = 0
    /\ call = NoCall
    /\ NoDialog

\* self.detect_candidates() with the ports in `listing` plugged in.
DetectCandidates ==
    /\ call = NoCall
    /\ \E listing \in PortListings(platform) :
          call' = [fn |-> "detect_candidates",
                   listing |-> listing,
                   out |-> detect_candidates(platform,
                              [i \in 1..Len(listing) |-> PortsOf(platform)[listing[i]]])]
    /\ UNCHANGED << platform, enumRest >>

NextEnum == DetectCandidates

SpecEnum == InitEnum /\ [][NextEnum]_vars

(* ------------------------------------------------------------------ *)
(* The scorer on its own                                               *)
(* ------------------------------------------------------------------ *)

\* Arguments of _score_port: device paths of the three platforms, texts with
\* and without a keyword, ids of known and unknown vendors (0 is an id).
ScoreDevs == {"/dev/ttyUSB0", "/dev/tty.usbmodem1", "/dev/cu.modem", "COM1", "COM3"}
ScoreDescs == {None, "USB Serial", "n/a"}
ScoreManus == {None, "FTDI"}
ScoreProds == {None, "Bluetooth Modem"}
ScoreVids == {4292, 1027, 9999, 0}
ScorePids == {60000, 0}

\* _score_port for a port with both ids and for the same port without them.
ScorePort ==
    /\ call = NoCall
    /\ \E dev \in ScoreDevs, desc \in ScoreDescs, manu \in ScoreManus,
          prod \in ScoreProds, vid \in ScoreVids, pid \in ScorePids,
          is_bluetooth \in BOOLEAN, is_legacy \in BOOLEAN :
          call' = [fn |-> "_score_port",
                   args |-> << dev, vid, pid, desc, manu, prod, is_bluetooth, is_legacy >>,
                   present |-> _score_port(dev, vid, pid, desc, manu, prod,
                                           is_bluetooth, is_legacy),
                   missing |-> _score_port(dev, NoId, NoId, desc, manu, prod,
                                           is_bluetooth, is_legacy)]
    /\ UNCHANGED << platform, enumRest >>

NextScore == ScorePort

SpecScore == InitEnum /\ [][NextScore]_vars

(* ------------------------------------------------------------------ *)
(* PortPickerDialog (ui/port_picker_dialog.py)                         *)
(* ------------------------------------------------------------------ *)

MaxThreads == 2

\* Paths the candidates handed to the dialog may carry.
DialogPaths == {"/dev/ttyUSB0", "/dev/ttyACM0", "/dev/ttyS0"}

\* Lists of candidates, as the caller or refresh_fn hands them over: up to
\* two candidates of distinct paths, in any order, and two lists in which a
\* candidate has no path.
DialogLists ==
    UNION {{[i \in 1..k |-> [path |-> l[i]]] :
               l \in {m \in [1..k -> DialogPaths] :
                         \A i, j \in 1..k : i # j => m[i] # m[j]}} : k \in 0..2}
    \cup {<< [path |-> None] >>, << [path |-> "/dev/ttyUSB0"], [path |-> None] >>}

\* What refresh_fn may do: return a list, return None, raise.
RefreshOutcomes ==
    {[kind |-> "list", list |-> l] : l \in DialogLists}
    \cup {[kind |-> "none", list |-> << >>], [kind |-> "raised", list |-> << >>]}

\* max(0, min(default_index, max(0, len(self._candidates) - 1)))
Max(a, b) == IF a >= b THEN a ELSE b
Min(a, b) == IF a <= b THEN a ELSE b
_selected_index(cs, default_index) ==
    Max(0, Min(default_index, Max(0, Len(cs) - 1)))

\* self._candidates[idx] raises IndexError (idx is never negative).
InRange(cs, idx) == idx >= 0 /\ idx < Len(cs)

\* self._candidates[idx].get("path"), None when the index raises.
PathAt(cs, idx) == IF InRange(cs, idx) THEN cs[idx + 1].path ELSE None

\* for i, c in enumerate(cs): if c.get("path") == sel_path: new_index = i; break
FirstIndexOf(cs, sel_path) ==
    IF \E i \in 1..Len(cs) : cs[i].path = sel_path
    THEN (CHOOSE i \in 1..Len(cs) :
              /\ cs[i].path = sel_path
              /\ \A j \in 1..(i - 1) : cs[j].path # sel_path) - 1
    ELSE 0

\* _on_refresh, lines 103-115: self._candidates is already the fresh list
\* when the selected path is read from it.
NewIndex(old, fresh, choice) ==
    IF Truthy(PathAt(fresh, choice)) THEN FirstIndexOf(fresh, PathAt(fresh, choice)) ELSE 0

\* _set_busy(busy): the three buttons
_set_busy(busy) ==
    /\ _btn_connect' = IF busy THEN "disabled" ELSE "normal"
    /\ _btn_refresh' = IF busy THEN "disabled" ELSE "normal"
    /\ _btn_cancel' = IF busy THEN "disabled" ELSE "normal"

\* All the state but the dialog's.
dialogRest == << platform, scored, explicit_port, dc, last_error, last_good_port,
                probe_recent, store, now, pc, callVars, probeVars, abandoned,
                histVars, probedAt, ops >>

\* PortPickerDialog.__init__
InitDialog ==
    /\ platform = "linux"
    /\ scored = << >>
    /\ explicit_port = None
    /\ store = StoreMissing
    /\ Constructed
    /\ now = 0
    /\ pc = "idle"
    /\ connected = FALSE
    /\ cands_use = << >>
    /\ pi = 0
    /\ verified = << >>
    /\ worker = NoWorker
    /\ result = FALSE
    /\ started = 0
    /\ joinState = "none"
    /\ abandoned = {}
    /\ trace = << >>
    /\ ret = NoRet
    /\ prev = None
    /\ lastConnect = [ok |-> FALSE, port |-> None, why |-> None, busy |-> FALSE]
    /\ closedSince = FALSE
    /\ leaked = FALSE
    /\ probedAt = [q \in {} |-> 0]
    /\ ops = 0
    /\ call = NoCall
    /\ _candidates \in DialogLists
    /\ \E default_index \in {-1, 0, 1, 3} :
          _choice_var = _selected_index(_candidates, default_index)
    /\ dlg_result = None
    /\ _status = ""
    /\ _btn_connect = "normal"
    /\ _btn_refresh = "normal"
    /\ _btn_cancel = "normal"
    /\ threads = << >>
    /\ after_queue = << >>
    /\ destroyed = FALSE

\* _on_refresh with what refresh_fn did
_on_refresh(o) ==
    IF o.kind = "raised"
    THEN /\ _status' = "refresh failed"
         /\ UNCHANGED << _candidates, _choice_var, call >>
    ELSE LET fresh == IF o.kind = "none" THEN << >> ELSE o.list
         IN  /\ _candidates' = fresh
             /\ _choice_var' = NewIndex(_candidates, fresh, _choice_var)
             /\ _status' = ""
             /\ call' = [fn |-> "_on_refresh", before |-> _candidates,
                         choice |-> _choice_var]

\* _on_connect: the checks, _set_busy(True, ...) and Thread(...).start()
_on_connect ==
    IF ~InRange(_candidates, _choice_var)
    THEN /\ _status' = "list index out of range"
         /\ UNCHANGED << buttonVars, threads >>
    ELSE LET port == PathAt(_candidates, _choice_var)
         IN  IF ~Truthy(port)
             THEN /\ _status' = "Select a port."
                  /\ UNCHANGED << buttonVars, threads >>
             ELSE /\ Len(threads) + Len(after_queue) < MaxThreads
                  /\ _set_busy(TRUE)
                  /\ _status' = "Connecting to " \o port
                  /\ threads' = Append(threads, [port |-> port, st |-> "started"])

\* The Connect button is pressed: a disabled button runs no command.
ClickConnect ==
    /\ ~destroyed
    /\ _btn_connect = "normal"
    /\ _on_connect
    /\ UNCHANGED << dialogRest, call, _candidates, _choice_var, dlg_result,
                    after_queue, destroyed >>

\* self.bind("<Return>", lambda _e: self._on_connect())
PressReturn ==
    /\ ~destroyed
    /\ _on_connect
    /\ UNCHANGED << dialogRest, call, _candidates, _choice_var, dlg_result,
                    after_queue, destroyed >>

\* The Refresh button is pressed.
ClickRefresh ==
    /\ ~destroyed
    /\ _btn_refresh = "normal"
    /\ \E o \in RefreshOutcomes : _on_refresh(o)
    /\ UNCHANGED << dialogRest, dlg_result, buttonVars, threads, after_queue,
                    destroyed >>

\* A radio button of the list is chosen.
ChooseRadio ==
    /\ ~destroyed
    /\ \E idx \in 0..(Len(_candidates) - 1) :
          /\ idx # _choice_var
          /\ _choice_var' = idx
    /\ call' = NoCall
    /\ UNCHANGED << dialogRest, _candidates, dlg_result, _status, buttonVars,
                    threads, after_queue, destroyed >>

\* _on_cancel
_on_cancel ==
    /\ dlg_result' = None
    /\ destroyed' = TRUE
    /\ UNCHANGED << dialogRest, call, _candidates, _choice_var, _status,
                    buttonVars, threads, after_queue >>

\* The Cancel button is pressed.
ClickCancel ==
    /\ ~destroyed
    /\ _btn_cancel = "normal"
    /\ _on_cancel

\* The Escape key, or the window manager's close button.
PressEscape ==
    /\ ~destroyed
    /\ _on_cancel

\* threads without its i-th element
Without(seq, i) == SubSeq(seq, 1, i - 1) \o SubSeq(seq, i + 1, Len(seq))

\* _work enters self._connect_fn(str(port))
WorkCall ==
    /\ \E i \in DOMAIN threads :
          /\ threads[i].st = "started"
          /\ threads' = [threads EXCEPT ![i].st = "calling"]
    /\ UNCHANGED << dialogRest, call, _candidates, _choice_var, dlg_result,
                    _status, buttonVars, after_queue, destroyed >>

\* connect_fn returns or raises, and _work hands _done to self.after, which
\* raises once the window is gone.
WorkReturn ==
    /\ \E i \in DOMAIN threads : \E ok \in BOOLEAN :
          /\ threads[i].st = "calling"
          /\ threads' = Without(threads, i)
          /\ after_queue' = IF destroyed THEN after_queue
                            ELSE Append(after_queue, [port |-> threads[i].port, ok |-> ok])
    /\ UNCHANGED << dialogRest, call, _candidates, _choice_var, dlg_result,
                    _status, buttonVars, destroyed >>

\* _done runs on the dialog's event loop.
Done ==
    /\ ~destroyed
    /\ after_queue # << >>
    /\ after_queue' = Tail(after_queue)
    /\ IF Head(after_queue).ok
       THEN /\ dlg_result' = Head(after_queue).port
            /\ destroyed' = TRUE
            /\ UNCHANGED << _status, buttonVars >>
       ELSE /\ _status' = "Failed to connect on " \o Head(after_queue).port
            /\ _set_busy(FALSE)
            /\ UNCHANGED << dlg_result, destroyed >>
    /\ UNCHANGED << dialogRest, call, _candidates, _choice_var, threads >>

NextDialog ==
    \/ ClickConnect
    \/ PressReturn
    \/ ClickRefresh
    \/ ChooseRadio
    \/ ClickCancel
    \/ PressEscape
    \/ WorkCall
    \/ WorkReturn
    \/ Done

SpecDialog == InitDialog /\ [][NextDialog]_vars

(* ------------------------------------------------------------------ *)
(* Properties                                                          *)
(* ------------------------------------------------------------------ *)

\* The resolution has returned (to the owner, or to
\* connect_autodetect_if_single, which has returned in "returned_single").
AtReturn == pc \in {"returned", "returned_single"}

\* C1: the slot holds a session exactly when the most recent connect attempt
\* succeeded and close has not run since; the one session it then holds is
\* the one that attempt opened.
C1_SlotIffLastConnectSucceeded ==
    /\ (dc # NoSession) <=> (lastConnect.ok /\ ~closedSince)
    /\ dc # NoSession => dc = Session(lastConnect.port)

\* C1 witness: a connect attempt succeeded, close ran, the slot is empty.
C1_Witness == lastConnect.ok /\ closedSince /\ dc = NoSession

\* C2: a resolution entered with a session held returns no candidates and
\* has opened, enumerated and probed nothing; entered right after another
\* resolution that was entered with a session held, it returns the port
\* that one returned.
C2_Idempotent ==
    (AtReturn /\ connected) =>
        /\ ret.candidates = << >>
        /\ trace = << >>
        /\ prev # None => ret.port = prev

\* C2 witness: the second of two resolutions entered with a session held
\* has returned.
C2_Witness == AtReturn /\ connected /\ prev # None

\* C3: a resolution entered with a session held returns the path that was
\* passed to the try_connect that opened the session.
C3_ReturnsBoundPort ==
    (AtReturn /\ connected) =>
        /\ lastConnect.ok
        /\ ret.port = lastConnect.port
        /\ ret.port = dc.port

\* C3 witness: the session was opened on a probe-verified candidate by a
\* controller that has an explicit port, and the resolution returns the
\* candidate's path, not the explicit port.
C3_Witness ==
    /\ AtReturn /\ connected
    /\ lastConnect.why = "verified"
    /\ Truthy(explicit_port)
    /\ ret.port # explicit_port

\* C4: once _probe_port has returned, no session its worker opened is still
\* open, and no try_connect has opened a path on which a probe worker held a
\* session.
C4_ProbeClosedBeforeReturn ==
    /\ \A w \in abandoned : ~SessionOpen(w)
    /\ ~lastConnect.busy

\* The worker had not completed identity() when t.join returned.
BeforeIdentity == {"spawned", "opened"}

\* C5: a probe whose join ended at the deadline, before the worker's open and
\* identity had finished, returned False.
C5_TimeoutReportsFalse ==
    \A i \in DOMAIN trace :
        (/\ trace[i].ev = "probe"
         /\ trace[i].why = "timeout"
         /\ trace[i].worker \in BeforeIdentity) => ~trace[i].ok

\* The path was probed (opened and asked for its identity) and the call at
\* time t falls inside the five seconds after that probe returned.
InsideWindow(port, t) ==
    /\ port \in DOMAIN probedAt
    /\ t - probedAt[port] < ThrottleS

\* C6: a call of _probe_port on a path made less than 5 seconds after a probe
\* of that path returned spawns no worker and returns False.
C6_ThrottledSecondProbe ==
    /\ pc \in {"join", "joined"} => ~InsideWindow(worker.port, started)
    /\ \A i \in DOMAIN trace :
          (/\ trace[i].ev = "probe"
           /\ InsideWindow(trace[i].port, trace[i].at)
           /\ trace[i].at > probedAt[trace[i].port]) =>
              /\ trace[i].why = "skipped"
              /\ ~trace[i].ok

\* C6 witness: a path was probed, and a second call on it, later and inside
\* the window, was skipped.
C6_Witness ==
    \E i \in DOMAIN trace :
        /\ trace[i].ev = "probe"
        /\ trace[i].why = "skipped"
        /\ InsideWindow(trace[i].port, trace[i].at)
        /\ trace[i].at > probedAt[trace[i].port]

\* The candidates of a listing that are not flagged as Bluetooth.
IsPlain(c) == ~c.is_bluetooth
Plain(cs) == SelectSeq(cs, IsPlain)

\* The call enumerated, and the listing was cs.
Listed(cs) ==
    \E i \in DOMAIN trace :
        trace[i].ev = "enum" /\ trace[i].why = "listed" /\ trace[i].cands = cs

\* The call opened the single candidate of its working subset, and how the
\* save that followed ended.
OpenedSingle(path, wr) ==
    \E i \in DOMAIN trace :
        /\ trace[i].ev = "open" /\ trace[i].why = "single"
        /\ trace[i].ok /\ trace[i].port = path /\ trace[i].wr = wr

\* Exactly one candidate of the listing is not a Bluetooth port, its score
\* is 40 or more, and the call opened it.
SingleCase(cs, wr) ==
    /\ AtReturn /\ Listed(cs)
    /\ Len(Plain(cs)) = 1
    /\ Plain(cs)[1].score >= HighConfidence
    /\ OpenedSingle(Plain(cs)[1].path, wr)

C8_NoCandidates ==
    (AtReturn /\ Listed(<< >>)) =>
        /\ ret = NoRet
        /\ last_error.code = "no_candidates"

\* C8 witness: the explicit port failed to open, then nothing was
\* enumerated.
C8_Witness ==
    /\ AtReturn /\ Listed(<< >>)
    /\ \E j \in DOMAIN trace :
          trace[j].ev = "open" /\ trace[j].why = "explicit" /\ ~trace[j].ok

\* Some candidate was probed (the probe ran), and no probe returned True.
NoneVerified ==
    /\ \E i \in DOMAIN trace : trace[i].ev = "probe" /\ trace[i].why # "skipped"
    /\ \A i \in DOMAIN trace : trace[i].ev = "probe" => ~trace[i].ok

\* C9: with three or more candidates enumerated and none verified by a
\* probe, the call returns no port and the candidates that are not
\* Bluetooth ports, or all of them when every one is a Bluetooth port.
C9_NoneVerifiedReturnsSubset ==
    \A i \in DOMAIN trace :
        (/\ AtReturn
         /\ trace[i].ev = "enum" /\ Len(trace[i].cands) >= 3
         /\ NoneVerified) =>
            /\ ret.port = None
            /\ ret.candidates = IF Plain(trace[i].cands) # << >>
                                THEN Plain(trace[i].cands)
                                ELSE trace[i].cands

\* C9 witness: three or more candidates, some of them Bluetooth ports and
\* some not, none verified.
C9_Witness ==
    \E i \in DOMAIN trace :
        /\ AtReturn /\ NoneVerified
        /\ trace[i].ev = "enum" /\ Len(trace[i].cands) >= 3
        /\ Plain(trace[i].cands) # << >>
        /\ Plain(trace[i].cands) # trace[i].cands

\* last_error() returns a record with a kind and a detail.
HasError == last_error.code # None /\ last_error.detail # None

\* C10 as stated: after auto_connect_or_candidates or
\* connect_autodetect_if_single has returned no port, last_error() is a
\* record with a kind and a detail, and it carries the candidates when
\* candidates were returned.
C10_ErrorAfterEveryFailure ==
    (AtReturn /\ ~Truthy(ret.port)) =>
        /\ HasError
        /\ ret.candidates # << >> =>
              /\ last_error.code = "multiple_candidates"
              /\ last_error.candidates = ret.candidates

\* C10 amended: the record is there after connect_autodetect_if_single has
\* returned no port, and after auto_connect_or_candidates has returned no
\* port and no candidates; after connect_autodetect_if_single it carries the
\* candidates when there are some.
C10_ErrorAfterShimOrEmpty ==
    /\ (pc = "returned_single" /\ ~Truthy(ret.port)) =>
          /\ HasError
          /\ ret.candidates # << >> =>
                /\ last_error.code = "multiple_candidates"
                /\ last_error.candidates = ret.candidates
    /\ (pc = "returned" /\ ~Truthy(ret.port) /\ ret.candidates = << >>) =>
          HasError

\* C10 witness: connect_autodetect_if_single has returned no port, with
\* candidates left to choose from.
C10_Witness ==
    pc = "returned_single" /\ ~Truthy(ret.port) /\ ret.candidates # << >>

\* The listing facility failed during the call: detect_candidates raised.
EnumerationRaised ==
    \E i \in DOMAIN trace : trace[i].ev = "enum" /\ trace[i].why = "raised"

\* C11: when the port listing fails during a resolution, what the caller is
\* left with is an error of a kind of its own, neither open_failed nor
\* no_candidates (and not the absence of an error).
C11_EnumerationErrorSurfaced ==
    (AtReturn /\ EnumerationRaised) =>
        last_error.code \notin {None, "open_failed", "no_candidates"}

ListedAt(path) ==
    CHOOSE i \in 1..Len(call.listing) :
        PortsOf(platform)[call.listing[i]].device = path

\* C13: detect_candidates returns one candidate for each listed port, with
\* its score after the platform-wide adjustments, in descending order of
\* that score, and candidates of equal score in the order of the listing.
C13_SortedStable ==
    call.fn = "detect_candidates" =>
        /\ Len(call.out) = Len(call.listing)
        /\ \A i \in 1..Len(call.listing) :
              \E j \in 1..Len(call.out) :
                  call.out[j] = Adjusted(platform,
                                   CandidateOf(platform, PortsOf(platform)[call.listing[i]]))
        /\ \A i, j \in 1..Len(call.out) :
              i < j =>
                 /\ call.out[i].score >= call.out[j].score
                 /\ call.out[i].score = call.out[j].score =>
                       ListedAt(call.out[i].path) < ListedAt(call.out[j].path)

\* C13 witness: two candidates of equal score, listed with a port of higher
\* score after them, come out behind it and in their listed order.
C13_Witness ==
    /\ call.fn = "detect_candidates"
    /\ \E i, j \in 1..Len(call.out) :
          /\ 1 < i /\ i < j
          /\ call.out[i].score = call.out[j].score
          /\ ListedAt(call.out[1].path) > ListedAt(call.out[j].path)

\* C14: with both ids present a port scores at least 50 more than the same
\* port with both ids missing.
C14_VidPidBoost ==
    call.fn = "_score_port" => call.present >= call.missing + ScoreVidPid

\* C14 witness: a Bluetooth, legacy port of an unknown vendor, whose score
\* with the ids is exactly 50 above a negative score without them.
C14_Witness ==
    /\ call.fn = "_score_port"
    /\ call.args[7] /\ call.args[8]
    /\ call.missing < 0
    /\ call.present = call.missing + ScoreVidPid

\* C15: after a successful connect on a path, whose save reached the store,
\* the controller's last good port is that path, as the store's is.
C15_LastGoodMirrorsStore ==
    (lastConnect.ok /\ _load_last_good_port(store) = lastConnect.port) =>
        last_good_port = lastConnect.port

\* The place of an event among the steps of auto_connect_or_candidates.
StepRank(e) ==
    IF e.ev = "enum" THEN 3
    ELSE IF e.ev = "probe" THEN 5
    ELSE IF e.why = "explicit" THEN 1
    ELSE IF e.why = "last_good" THEN 2
    ELSE IF e.why = "single" THEN 4
    ELSE 6

FailedOpen(e, why) == e.ev = "open" /\ e.why = why /\ ~e.ok

\* C16: within one call of auto_connect_or_candidates the events follow the
\* order explicit open, last-good open, enumeration, single-candidate open,
\* probes, verified open, each of the first four at most once; a step that
\* applies is never passed over; a successful open is the last event of the
\* call; and the call never returns right after a failed explicit or
\* last-good open.
C16_StepOrder ==
    /\ \A i, j \in DOMAIN trace :
          i < j => \/ StepRank(trace[i]) < StepRank(trace[j])
                   \/ trace[i].ev = "probe" /\ trace[j].ev = "probe"
    /\ \A j \in DOMAIN trace :
          /\ (StepRank(trace[j]) >= 2 /\ Truthy(explicit_port)) =>
                 \E i \in 1..(j - 1) : FailedOpen(trace[i], "explicit")
          /\ (StepRank(trace[j]) >= 3 /\ Truthy(last_good_port)) =>
                 \E i \in 1..(j - 1) : FailedOpen(trace[i], "last_good")
          /\ StepRank(trace[j]) >= 4 =>
                 \E i \in 1..(j - 1) : trace[i].ev = "enum"
          /\ (trace[j].ev = "open" /\ trace[j].ok) => j = Len(trace)
    /\ (AtReturn /\ trace # << >>) =>
          /\ ~FailedOpen(trace[Len(trace)], "explicit")
          /\ ~FailedOpen(trace[Len(trace)], "last_good")

\* C16 witness: the explicit port and the last good port both failed to
\* open, the one candidate enumerated failed to open too, it was probed, and
\* the open that followed the probe succeeded and ended the call.
C16_Witness ==
    /\ AtReturn
    /\ Len(trace) = 6
    /\ FailedOpen(trace[1], "explicit")
    /\ FailedOpen(trace[2], "last_good")
    /\ trace[3].ev = "enum"
    /\ FailedOpen(trace[4], "single")
    /\ trace[5].ev = "probe"
    /\ trace[6].ev = "open" /\ trace[6].ok /\ ret.port = trace[6].port

IsProbe(e) == e.ev = "probe"
IsVerifiedProbe(e) == e.ev = "probe" /\ e.ok
IsVerifiedOpen(e) == e.ev = "open" /\ e.why = "verified"

\* The candidates that are not Bluetooth ports, or all when there are none.
SubsetOf(cs) == IF Plain(cs) # << >> THEN Plain(cs) ELSE cs

AtMostThree(n) == IF n < 3 THEN n ELSE 3

\* C17: the probes of one call go, in order, to the first candidates of the
\* working subset, three at most, and no candidate left out scores higher
\* than one probed; an open follows the probes exactly when one probe
\* verified, on the path of that probe; without it the call returns no port
\* and the working subset.
C17_ProbeTopThree ==
    \A e \in DOMAIN trace :
        (trace[e].ev = "enum" /\ trace[e].why = "listed") =>
            LET use == SubsetOf(trace[e].cands)
                pr == SelectSeq(trace, IsProbe)
                ver == SelectSeq(trace, IsVerifiedProbe)
                op == SelectSeq(trace, IsVerifiedOpen)
            IN  /\ Len(pr) <= AtMostThree(Len(use))
                /\ \A k \in DOMAIN pr : pr[k].port = use[k].path
                /\ \A k \in DOMAIN pr : \A m \in (Len(pr) + 1)..Len(use) :
                      use[m].score <= use[k].score
                /\ Len(op) <= 1
                /\ Len(op) = 1 =>
                      /\ Len(pr) = AtMostThree(Len(use))
                      /\ Len(ver) = 1
                      /\ op[1].port = ver[1].port
                /\ (AtReturn /\ pr # << >>) =>
                      /\ Len(pr) = AtMostThree(Len(use))
                      /\ (Len(op) = 1) <=> (Len(ver) = 1)
                      /\ Len(op) = 0 => ret = [port |-> None, candidates |-> use]

\* C17 witness: four candidates in the working subset, three of them probed,
\* one verified, and the open of that one followed.
C17_Witness ==
    \E e \in DOMAIN trace :
        /\ AtReturn
        /\ trace[e].ev = "enum"
        /\ Len(SubsetOf(trace[e].cands)) = 4
        /\ Len(SelectSeq(trace, IsProbe)) = 3
        /\ Len(SelectSeq(trace, IsVerifiedProbe)) = 1
        /\ Len(SelectSeq(trace, IsVerifiedOpen)) = 1

\* The step was a try_connect called by the owner, and the port did not open.
FailedDirect ==
    pc = "idle" /\ pc' = "idle" /\ ops' # ops /\ ~lastConnect'.ok

\* The step ended with a try_connect of the flow whose port did not open.
FailedInFlow ==
    /\ trace' # trace /\ trace' # << >>
    /\ trace'[Len(trace')].ev = "open" /\ ~trace'[Len(trace')].ok

\* What a failed try_connect on lastConnect'.port leaves behind.
AfterFailedConnect ==
    /\ ~lastConnect'.ok
    /\ last_error' = [code |-> "open_failed",
                      detail |-> OpenDetail(lastConnect'.port),
                      candidates |-> << >>]
    /\ dc' = NoSession
    /\ pc' \in {"returned", "returned_single"} => ret'.port = None

\* C18: a try_connect whose port does not open ends as a call that returns:
\* the caller goes on, the error is open_failed with the message of the
\* failure, the slot is empty, and the store is as it was before the step;
\* and a step changes the store only by a try_connect that succeeded, to the
\* text that names its port.
C18_FailedConnectContained ==
    [][/\ FailedDirect => (AfterFailedConnect /\ store' = store)
       /\ FailedInFlow =>
             /\ AfterFailedConnect
             /\ lastConnect'.port = trace'[Len(trace')].port
             /\ store' = store
       /\ store' # store =>
             /\ lastConnect'.ok
             /\ dc' = Session(lastConnect'.port)
             /\ store' = JsonDump(lastConnect'.port)]_vars

\* C18 witness: a store that names a port, a slot that was emptied by a
\* try_connect that failed, the error it recorded, and the call returned.
C18_Witness ==
    /\ AtReturn
    /\ trace # << >>
    /\ trace[Len(trace)].ev = "open" /\ ~trace[Len(trace)].ok
    /\ ~lastConnect.ok
    /\ last_error.code = "open_failed"
    /\ dc = NoSession
    /\ store # StoreMissing
    /\ ret.port = None

\* The _work threads that are inside connect_fn.
InConnect == {i \in DOMAIN threads : threads[i].st = "calling"}

\* C19: at no time are two of the dialog's connect attempts inside
\* connect_fn together.
C19_OneConnectAtATime == Cardinality(InConnect) <= 1

\* The path that was selected when the last refresh began.
SelectedBefore == PathAt(call.before, call.choice)

\* C20: after a refresh, when the path selected before it is in the fresh
\* list the selection is on that path, and otherwise the selection is index 0.
C20_RefreshKeepsSelection ==
    call.fn = "_on_refresh" =>
        IF /\ Truthy(SelectedBefore)
           /\ \E i \in DOMAIN _candidates : _candidates[i].path = SelectedBefore
        THEN PathAt(_candidates, _choice_var) = SelectedBefore
        ELSE _choice_var = 0

\* C21: no session that try_connect opened has left the slot without close
\* having been called on it.
C21_NoSessionDropped == ~leaked

\* C22: a probe that was skipped was on a path on which a probe had run
\* before.
C22_FirstProbeNeverSkipped ==
    \A i \in DOMAIN trace :
        (trace[i].ev = "probe" /\ trace[i].why = "skipped") =>
            trace[i].port \in DOMAIN probedAt

====
